---- MODULE Spec2Model ----
(***************************************************************************)
(* State machine of the beQuiet monstercount tracker                      *)
(* (src/monstercount_tracker.py).  One invocation of main() is a "tick";  *)
(* it is split into steps at every access to something shared between    *)
(* invocations: the state document, the lock directory, the roster file,  *)
(* the scraped website and the Discord webhook.                           *)
(***************************************************************************)
EXTENDS Integers, Sequences, FiniteSets, TLC

\* ---------------------------------------------------------------- bounds

\* Number of calendar days the clock may cover, counted from the first day.
MaxDays == 3
\* Number of invocations of main() in one behaviour when they run one after
\* another.
MaxTicks == 2
\* Number of invocations of main() in one behaviour when they may overlap.
MaxOverlapTicks == 2
\* Largest kill count the monstercount table shows for one player.
MaxKills == 1
\* Number of invocations of main() in one behaviour that starts at any of
\* the instants around the posting windows.
MaxWindowTicks == 1
\* Length of the longest flavor text, in characters.
MaxSpruch == 1900

\* ------------------------------------------------------ program constants

DAILY_START_MIN == 40
DAILY_END_MIN == 55
WEEKLY_START_MIN == 30
WEEKLY_END_MIN == 50
MONTHLY_START_MIN == 20
MONTHLY_END_MIN == 59
MAX_LINES == 40
DISCORD_SAFE_LIMIT == 1900

\* ------------------------------------------------- calendar (Europe/Berlin)
\* A datetime is a record [year, month, day, hour, minute].

IsLeap(y) == (y % 4 = 0 /\ y % 100 # 0) \/ (y % 400 = 0)

DaysInMonth(y, m) ==
  IF m = 2 THEN (IF IsLeap(y) THEN 29 ELSE 28)
  ELSE IF m \in {4, 6, 9, 11} THEN 30 ELSE 31

RECURSIVE DaysBeforeMonth(_, _)
DaysBeforeMonth(y, m) ==
  IF m = 1 THEN 0 ELSE DaysBeforeMonth(y, m - 1) + DaysInMonth(y, m - 1)

\* date.toordinal(): 0001-01-01 is day 1 (a Monday).
ToOrdinal(y, m, d) ==
  LET p == y - 1
  IN  p * 365 + (p \div 4) - (p \div 100) + (p \div 400) + DaysBeforeMonth(y, m) + d

\* dt + timedelta(days=1)
PlusOneDay(dt) ==
  IF dt.day < DaysInMonth(dt.year, dt.month)
    THEN [dt EXCEPT !.day = dt.day + 1]
  ELSE IF dt.month < 12
    THEN [dt EXCEPT !.day = 1, !.month = dt.month + 1]
  ELSE [dt EXCEPT !.day = 1, !.month = 1, !.year = dt.year + 1]

RECURSIVE PlusDays(_, _)
PlusDays(dt, n) == IF n = 0 THEN dt ELSE PlusDays(PlusOneDay(dt), n - 1)

\* dt.isoweekday(): Monday = 1 .. Sunday = 7
isoweekday(dt) == ((ToOrdinal(dt.year, dt.month, dt.day) - 1) % 7) + 1

\* Ordinal of the Monday that starts ISO week 1 of year y.
IsoWeek1Monday(y) ==
  LET firstday == ToOrdinal(y, 1, 1)
      firstweekday == (firstday + 6) % 7
      monday == firstday - firstweekday
  IN  IF firstweekday > 3 THEN monday + 7 ELSE monday

\* dt.isocalendar() as <<ISO year, ISO week>>
isocalendar(dt) ==
  LET today == ToOrdinal(dt.year, dt.month, dt.day)
      y == dt.year
      w == today - IsoWeek1Monday(y)
  IN  IF w < 0
        THEN <<y - 1, ((today - IsoWeek1Monday(y - 1)) \div 7) + 1>>
      ELSE IF (w \div 7) >= 52 /\ today >= IsoWeek1Monday(y + 1)
        THEN <<y + 1, 1>>
      ELSE <<y, (w \div 7) + 1>>

\* f"{n:02d}"
Pad2(n) == IF n < 10 THEN "0" \o ToString(n) ELSE ToString(n)

\* now_local.date().isoformat()
DateIso(dt) == ToString(dt.year) \o "-" \o Pad2(dt.month) \o "-" \o Pad2(dt.day)

iso_year_week(dt) ==
  LET c == isocalendar(dt) IN ToString(c[1]) \o "-W" \o Pad2(c[2])

year_month(dt) == ToString(dt.year) \o "-" \o Pad2(dt.month)

year_key(dt) == ToString(dt.year)

\* is_in_window without the test of the hour.
is_in_window_AnyHour(dt, start_m, end_m) ==
  start_m <= dt.minute /\ dt.minute <= end_m

is_in_window(dt, start_m, end_m) ==
  dt.hour = 23 /\ start_m <= dt.minute /\ dt.minute <= end_m

\* end_of_month by the number of the day alone.
end_of_month_ThirtyDays(dt) == dt.day >= 30

\* (dt + timedelta(days=1)).day == 1
end_of_month(dt) == PlusOneDay(dt).day = 1

\* (now_local.replace(day=1) + timedelta(days=32)).replace(day=1)
first_next_month(dt) ==
  [PlusDays([dt EXCEPT !.day = 1], 32) EXCEPT !.day = 1]

\* ------------------------------------------------------------- the inputs

\* First day the clock can show: Saturday 2023-12-30.  The next day is a
\* Sunday, the last day of its month and 31 December at once.
StartDate == [year |-> 2023, month |-> 12, day |-> 30]

\* The first days a behaviour can start on.  After Wednesday 2024-02-28
\* comes the last day of a month that is no Sunday; after Saturday
\* 2024-03-09 comes a Sunday inside a month.
StartDates ==
  { StartDate,
    [year |-> 2024, month |-> 2, day |-> 28],
    [year |-> 2024, month |-> 3, day |-> 9] }

\* Times of day at which the clock is read: <<hour, minute>>.
TickTimes == {<<21, 0>>, <<23, 35>>, <<23, 45>>, <<23, 52>>}

\* Times of day at and next to the ends of the posting windows, and the
\* minute of a window in the hours before and after.
WindowTimes ==
  { <<0, 45>>, <<22, 45>>, <<23, 0>>, <<23, 19>>, <<23, 20>>, <<23, 29>>,
    <<23, 30>>, <<23, 39>>, <<23, 40>>, <<23, 50>>, <<23, 51>>, <<23, 55>>,
    <<23, 56>>, <<23, 59>> }

\* Days of every kind: a Sunday inside a month, last days of months of 28,
\* 29, 30 and 31 days, days before them, 31 December, and the ends of
\* February of a leap year, of a century year that is none and of one that is.
WindowDates ==
  { [year |-> 2023, month |-> 2, day |-> 28],
    [year |-> 2023, month |-> 12, day |-> 30],
    [year |-> 2023, month |-> 12, day |-> 31],
    [year |-> 2024, month |-> 1, day |-> 30],
    [year |-> 2024, month |-> 1, day |-> 31],
    [year |-> 2024, month |-> 2, day |-> 28],
    [year |-> 2024, month |-> 2, day |-> 29],
    [year |-> 2024, month |-> 3, day |-> 10],
    [year |-> 2024, month |-> 4, day |-> 30],
    [year |-> 2000, month |-> 2, day |-> 28],
    [year |-> 2100, month |-> 2, day |-> 28] }

Kinds == {"Daily", "Weekly", "Monthly", "Yearly"}

\* str.lower() on the names that occur.
Lower(n) ==
  CASE n = "Bob" -> "bob"
    [] n = "Alice" -> "alice"
    [] n = "Troll" -> "troll"
    [] OTHER -> n

\* Position of a name in case-insensitive alphabetical order.
LowerRank(n) ==
  CASE Lower(n) = "alice" -> 1
    [] Lower(n) = "bob" -> 2
    [] OTHER -> 3

\* Rows (name, kills) of the Netherworld monstercount table.
Scrapes ==
  {<<>>} \cup
  { << <<"Bob", k>>, <<"alice", 1>>, <<"Troll", 1>> >> : k \in 0..MaxKills }

\* Lower-cased beQuiet names of the ranking table.
Rankings == { {"bob"} }

\* beQuiet names of the homepage table.
Homepages == { {}, {"Troll"}, {"Alice", "Troll"} }

\* ------------------------------------------------------- state document
\* A bucket is [key, kills, src]: key is the stored period key (year_week,
\* year_month or year), kills the dict name -> count in insertion order, as a
\* sequence of <<name, count>>.  src is a history field: the merges that the
\* counts in kills come from, each as <<period key of the merge, observations>>.

EmptyBucket(k) == [key |-> k, kills |-> <<>>, src |-> <<>>]

\* The document load_state() returns when there is no readable state file.
DefaultState ==
  [last_daily_date |-> "",
   weekly |-> EmptyBucket(""),
   monthly |-> EmptyBucket(""),
   yearly |-> EmptyBucket("")]

\* A file content json.loads() rejects: a proper prefix of the JSON text of
\* the document doc, as a write that stopped half way leaves it.
Unparseable(doc) == [unparseable |-> doc]

\* The state file is <<>> while it does not exist and <<content>> after.
\* load_state() returns what json.loads() makes of the content, whatever its
\* keys, and the default document when there is no file or json.loads()
\* raises.
load_state(file) ==
  IF Len(file) = 0 \/ "unparseable" \in DOMAIN file[1] THEN DefaultState
  ELSE file[1]

\* state.get(k, default)
GetKey(st, k, default) == IF k \in DOMAIN st THEN st[k] ELSE default

\* state[k] = v
SetKey(st, k, v) ==
  IF k \in DOMAIN st THEN [st EXCEPT ![k] = v]
  ELSE [f \in DOMAIN st \cup {k} |-> IF f = k THEN v ELSE st[f]]

\* The keys aggregate_into() reads with state[...].
BucketKeys == {"weekly", "monthly", "yearly"}

\* dict.get(name, 0)
Get(kills, name) ==
  IF \E i \in 1..Len(kills) : kills[i][1] = name
    THEN kills[CHOOSE i \in 1..Len(kills) : kills[i][1] = name][2]
    ELSE 0

\* kills[name] = kills.get(name, 0) + n
AddKill(kills, name, n) ==
  IF \E i \in 1..Len(kills) : kills[i][1] = name
    THEN [i \in 1..Len(kills) |->
            IF kills[i][1] = name THEN <<name, kills[i][2] + n>> ELSE kills[i]]
    ELSE Append(kills, <<name, n>>)

RECURSIVE AddAll(_, _)
AddAll(kills, obs) ==
  IF Len(obs) = 0 THEN kills
  ELSE AddAll(AddKill(kills, obs[1][1], obs[1][2]), Tail(obs))

\* AggregateBucket without the rollover: the stored key is replaced and the
\* old counts are kept.
AggregateBucket_NoReset(b, k, obs) ==
  [key |-> k, kills |-> AddAll(b.kills, obs), src |-> Append(b.src, <<k, obs>>)]

\* AggregateBucket with "=" for "+=": the observation replaces the count.
AggregateBucket_Overwrite(b, k, obs) ==
  LET base == IF b.key # k THEN EmptyBucket(k) ELSE b
  IN  [base EXCEPT !.kills = AddAll(<<>>, obs),
                   !.src = Append(base.src, <<k, obs>>)]

\* One of the three blocks of aggregate_into: roll the bucket over when the
\* computed key differs from the stored one, then add every observation.
AggregateBucket(b, k, obs) ==
  LET base == IF b.key # k THEN EmptyBucket(k) ELSE b
  IN  [base EXCEPT !.kills = AddAll(base.kills, obs),
                   !.src = Append(base.src, <<k, obs>>)]

aggregate_into(st, obs, dt) ==
  [st EXCEPT !.weekly = AggregateBucket(st.weekly, iso_year_week(dt), obs),
             !.monthly = AggregateBucket(st.monthly, year_month(dt), obs),
             !.yearly = AggregateBucket(st.yearly, year_key(dt), obs)]

\* sorted(items, key=lambda x: x[1], reverse=True): descending by count, and
\* stable, so items of equal count keep the order they had.
RECURSIVE InsertDesc(_, _)
InsertDesc(sorted, item) ==
  IF Len(sorted) = 0 THEN <<item>>
  ELSE IF sorted[1][2] >= item[2]
    THEN <<sorted[1]>> \o InsertDesc(Tail(sorted), item)
    ELSE <<item>> \o sorted

RECURSIVE SortDesc(_)
SortDesc(items) ==
  IF Len(items) = 0 THEN <<>>
  ELSE InsertDesc(SortDesc(SubSeq(items, 1, Len(items) - 1)), items[Len(items)])

\* joined of run_daily: the guild's rows with kills > 0, sorted by kills.
Joined(all_counts, bequiet_all) ==
  SortDesc(SelectSeq(all_counts,
                     LAMBDA r : Lower(r[1]) \in bequiet_all /\ r[2] > 0))

\* entries[:MAX_LINES]
TopLines(entries) ==
  IF Len(entries) > MAX_LINES THEN SubSeq(entries, 1, MAX_LINES) ELSE entries

\* ------------------------------------------------------- format_ranking()
\* A text is the sequence of its lines: the string "\n".join(lines).  No
\* title, name or flavor text holds a line break, so str.split("\n") of a
\* text gives its lines back.

GUILD_NAME == "beQuiet"

NoKills == "Keine Kills gefunden"

\* len() of the string a text stands for: the lines and the breaks between.
RECURSIVE TextLen(_)
TextLen(lines) ==
  IF Len(lines) = 0 THEN 0
  ELSE IF Len(lines) = 1 THEN Len(lines[1])
  ELSE Len(lines[1]) + 1 + TextLen(Tail(lines))

\* f"{i}. **{name}** {verb} **{kills}** mobs"
EntryLine(i, name, kills) ==
  ToString(i) \o ". **" \o name \o "** "
    \o (IF i % 2 = 1 THEN "hunted" ELSE "killed")
    \o " **" \o ToString(kills) \o "** mobs"

\* The lines of entries[:MAX_LINES].
EntryLines(entries) ==
  [i \in 1..Len(TopLines(entries)) |-> EntryLine(i, entries[i][1], entries[i][2])]

\* The while loop of format_ranking: the bisection for the longest slice of
\* body_lines that fits, returning best.  head is header, spruch and the
\* empty line that "\n\n" makes.
RECURSIVE TruncationSearch(_, _, _, _, _)
TruncationSearch(head, body_lines, low, high, best) ==
  IF low > high THEN best
  ELSE LET mid == (low + high) \div 2
           candidate_body ==
             IF mid > 0 THEN SubSeq(body_lines, 1, mid) ELSE <<NoKills>>
           cand == head \o candidate_body
       IN  IF TextLen(cand) <= DISCORD_SAFE_LIMIT
             THEN TruncationSearch(head, body_lines, mid + 1, high, candidate_body)
             ELSE TruncationSearch(head, body_lines, low, mid - 1, best)

\* format_ranking(title, entries, spruch): the message, as its lines.
format_ranking(title, entries, spruch) ==
  LET header == "**Netherworld " \o title \o " (" \o GUILD_NAME \o ")**"
      head == <<header, spruch, "">>
      msg == head \o (IF Len(entries) = 0 THEN <<NoKills>> ELSE EntryLines(entries))
      body_lines == SubSeq(msg, 3, Len(msg))
  IN  IF TextLen(msg) <= DISCORD_SAFE_LIMIT
        THEN msg
        ELSE head \o TruncationSearch(head, body_lines, 0, Len(body_lines), <<NoKills>>)

\* A string of n characters.
RECURSIVE Filler(_)
Filler(n) ==
  IF n = 0 THEN ""
  ELSE IF n % 2 = 0 THEN LET h == Filler(n \div 2) IN h \o h
  ELSE "x" \o Filler(n - 1)

\* What pick_spruch() returns: the built-in sentence, or a line of the text
\* file, which may be of any length.
Sprueche ==
  {"The mobs fell, the loot rolled, and morale stayed high."}
    \cup { Filler(MaxSpruch - k) : k \in {0, 60, 70, 1300} }

\* Titles of the reports; the two characters of the emoji a weekly or yearly
\* title starts with are written "##".
Titles ==
  { "Daily Monstercount", "## Weekly Monstercount 2023-W52",
    "## Yearly Monstercount 2023" }

\* A ranking of n players.
LongRanking(n) == [i \in 1..n |-> <<"player" \o ToString(i), 1000 - i>>]

\* Entry lists given to format_ranking: none, one, the three of a small
\* guild, and as many as MAX_LINES and more.
EntryLists ==
  { <<>>,
    << <<"Bob", 1>> >>,
    << <<"Zed", 20>>, <<"Bob", 10>>, <<"alice", 10>> >>,
    LongRanking(MAX_LINES), LongRanking(MAX_LINES + 1) }

\* The calls of format_ranking looked at.
FormatCalls ==
  { [title |-> t, entries |-> e, spruch |-> sp] :
      t \in Titles, e \in EntryLists, sp \in Sprueche }

\* ----------------------------------------------------------- roster file
\* members_bequiet.txt as the sequence of its non-empty stripped lines.

\* load_members(): dict lower-case key -> name, first spelling wins; as the
\* sequence of the names kept.
RECURSIVE load_members(_)
load_members(lines) ==
  IF Len(lines) = 0 THEN <<>>
  ELSE LET front == load_members(SubSeq(lines, 1, Len(lines) - 1))
           n == lines[Len(lines)]
       IN  IF \E i \in 1..Len(front) : Lower(front[i]) = Lower(n)
             THEN front ELSE Append(front, n)

MemberKeys(mem) == { Lower(mem[i]) : i \in 1..Len(mem) }

\* sorted(set(members.values()), key=lambda s: s.lower())
RECURSIVE SortNames(_)
SortNames(S) ==
  IF S = {} THEN <<>>
  ELSE LET n == CHOOSE x \in S : \A y \in S : LowerRank(x) <= LowerRank(y)
       IN  <<n>> \o SortNames(S \ {n})

save_members(mem) == SortNames({ mem[i] : i \in 1..Len(mem) })

\* The names of new_names add_members() appends to the roster.
AddedNames(lines, new_names) ==
  { n \in new_names : Lower(n) \notin MemberKeys(load_members(lines)) }

\* ------------------------------------------------------ members_sync.py
\* The roster sync has its own load_members, save_members and post_discord;
\* they are named sync_... here.

\* load_members() of members_sync.py: data[s.lower()] = s, so the last
\* spelling of a name wins, at the place of the first.
RECURSIVE sync_load_members(_)
sync_load_members(lines) ==
  IF Len(lines) = 0 THEN <<>>
  ELSE LET front == sync_load_members(SubSeq(lines, 1, Len(lines) - 1))
           n == lines[Len(lines)]
       IN  IF \E i \in 1..Len(front) : Lower(front[i]) = Lower(n)
             THEN [i \in 1..Len(front) |->
                     IF Lower(front[i]) = Lower(n) THEN n ELSE front[i]]
             ELSE Append(front, n)

\* sorted(mem.values(), key=lambda x: x.lower())
sync_save_members(mem) == SortNames({ mem[i] : i \in 1..Len(mem) })

\* add_missing that compares the names as they are spelled.
add_missing_CaseSensitive(current, to_add) ==
  SortNames({ n \in to_add : \A i \in 1..Len(current) : current[i] # n })

\* add_missing(current, to_add): the names added, those whose lower-cased
\* key is not in current.  The order of a Python set is arbitrary; the names
\* are taken in alphabetical order here.
add_missing(current, to_add) ==
  SortNames({ n \in to_add : Lower(n) \notin MemberKeys(current) })

\* What random.choice(BASE_MESSAGES) makes of format_message(name): a
\* sentence with the name in it, or the emoji alone.
Templates == {"NAME", "__EMOJI_ONLY__"}

\* The names a message of format_message(name) holds.
format_message(template, name) ==
  IF template = "__EMOJI_ONLY__" THEN <<>> ELSE <<name>>

\* post_discord() of members_sync.py: the message is out when the request
\* succeeds; an exception is printed, and the response is not looked at.
sync_post_discord(outcome) == [delivered |-> outcome = "ok", raises |-> FALSE]

\* Roster files a behaviour can start with: none, one name, two names out of
\* order, and one name in two spellings.
Rosters == { <<>>, <<"alice">>, <<"Bob", "alice">>, <<"alice", "Alice">> }

\* ------------------------------------------------------------- locks

\* LOCKS_DIR / f"{prefix}_{key}.lock"
LockPath(prefix, key) == prefix \o "_" \o key \o ".lock"

\* try_lock(): os.open(O_CREAT | O_EXCL) creates the file and returns True,
\* or returns False when the file exists.  One atomic file system call.
try_lock(lockdir, path) ==
  [acquired |-> path \notin lockdir, lockdir |-> lockdir \cup {path}]

\* ------------------------------------------------------------------ state

Invocations == {1, 2}

VARIABLES
  now,            \* the wall clock, Europe/Berlin
  NO_POST,        \* os.getenv("NO_POST") == "1": the test-mode flag
  state_file,     \* data/state_monstercount.json: <<>> or <<document>>
  locks,          \* names of the files in data/locks
  members_file,   \* lines of members_bequiet.txt
  daily_logs,     \* data/logs/Y/M/D_guild.json: date -> <<>> or <<joined>>
  sent,           \* messages the webhook has accepted, in order
  pc,             \* position of each invocation of main()
  state,          \* main(): state
  now_local,      \* main(): now_local
  bequiet,        \* run_daily(): bequiet_ranking, then bequiet_all
  joined,         \* run_daily(): joined
  added,          \* run_homepage_scan(): added
  tick,           \* history: number of the tick an invocation is running
  nticks,         \* history: ticks started so far
  epoch,          \* history: the first day of the behaviour
  roster0,        \* history: the roster file at the start of the behaviour
  sync_pc,        \* members_sync.py: position of the run
  sync_mem,       \* members_sync.py run_once(): mem
  sync_added,     \* members_sync.py run_once(): added names not yet announced
  args,           \* format_ranking(): the arguments of a call, <<>> without one
  result,         \* format_ranking(): what the call returned, <<>> before
  overlap,        \* history: pairs of ticks that ran at the same time
  pre,            \* history: state file, locks and roster when the tick started
  at_call,        \* history: state file when a notify call of the tick failed
  failed,         \* history: the call of the tick that did not succeed
  raised,         \* history: the call of the tick whose exception left main()
  notify_failed,  \* history: <<kind, period key>> of every failed notify
  notified,       \* history: <<tick, kind>> of every report given to post_discord()
  merged_days     \* history: calendar day of every aggregate_into() call, in order

shared == <<state_file, locks, members_file, daily_logs, sent>>
locals == <<state, now_local, bequiet, joined, added>>
\* What main() never writes: the environment, the roster sync and the
\* function calls looked at on their own.
outside == <<epoch, roster0, NO_POST, sync_pc, sync_mem, sync_added, args, result>>
history == <<tick, nticks, outside, overlap, pre, at_call, failed, raised,
            notify_failed, notified, merged_days>>
vars == <<now, shared, pc, locals, history>>

\* ---------------------------------------------------------- the webhook

\* The tracker is deployed with a webhook.  NO_POST, the test-mode flag of
\* the environment, is a variable of the model: see the variables below.
DISCORD_WEBHOOK == TRUE

\* What the webhook can answer to one requests.post().
Outcomes == {"ok", "fail"}

\* post_discord that logs a failed request instead of raising.
post_discord_Swallow(outcome) ==
  [delivered |-> ~NO_POST /\ DISCORD_WEBHOOK /\ outcome = "ok", raises |-> FALSE]

\* post_discord(): returns without sending under NO_POST or without a
\* webhook; otherwise the message is delivered when the request succeeds and
\* requests.post / raise_for_status raise when it does not.
post_discord(outcome) ==
  IF NO_POST \/ ~DISCORD_WEBHOOK
    THEN [delivered |-> FALSE, raises |-> FALSE]
    ELSE [delivered |-> outcome = "ok", raises |-> outcome # "ok"]

\* The clock at the start of the first day d.
Clock0(d) == [year |-> d.year, month |-> d.month, day |-> d.day,
              hour |-> 21, minute |-> 0]

NoSnapshot == [file |-> <<>>, locks |-> {}, roster |-> <<>>]

\* The dates the clock can show.
Days ==
  { DateIso(PlusDays(Clock0(d), n)) :
      d \in StartDates \cup WindowDates, n \in 0..(MaxDays - 1) }

\* The state after construction when the clock shows the instant clock of
\* the first day first, the state file holds file, the roster holds roster
\* and the test-mode flag is no_post; call is the call of
\* format_ranking to look at, <<>> for none.
Start(first, clock, file, roster, no_post, call) ==
  /\ epoch = first
  /\ now = clock
  /\ NO_POST = no_post
  /\ state_file = file
  /\ locks = {}
  /\ members_file = roster
  /\ roster0 = roster
  /\ daily_logs = [d \in Days |-> <<>>]
  /\ sent = <<>>
  /\ pc = [p \in Invocations |-> "idle"]
  /\ state = [p \in Invocations |-> DefaultState]
  /\ now_local = [p \in Invocations |-> Clock0(first)]
  /\ bequiet = [p \in Invocations |-> {}]
  /\ joined = [p \in Invocations |-> <<>>]
  /\ added = [p \in Invocations |-> {}]
  /\ tick = [p \in Invocations |-> 0]
  /\ nticks = 0
  /\ overlap = {}
  /\ pre = [p \in Invocations |-> NoSnapshot]
  /\ at_call = [p \in Invocations |-> <<>>]
  /\ failed = [p \in Invocations |-> ""]
  /\ raised = [p \in Invocations |-> ""]
  /\ notify_failed = {}
  /\ notified = {}
  /\ merged_days = <<>>
  /\ sync_pc = "idle"
  /\ sync_mem = <<>>
  /\ sync_added = <<>>
  /\ args = call
  /\ result = <<>>

\* The deployed tracker: no state file yet, a roster of one name, the clock
\* at 21:00 of the first day.
Init == \E d \in StartDates : Start(d, Clock0(d), <<>>, <<"alice">>, FALSE, <<>>)

\* The posting window of each kind, as the four runs test it.
InPostingWindow(kind, dt) ==
  CASE kind = "Daily" -> is_in_window(dt, DAILY_START_MIN, DAILY_END_MIN)
    [] kind = "Weekly" ->
         isoweekday(dt) = 7 /\ is_in_window(dt, WEEKLY_START_MIN, WEEKLY_END_MIN)
    [] kind = "Monthly" ->
         end_of_month(dt) /\ is_in_window(dt, MONTHLY_START_MIN, MONTHLY_END_MIN)
    [] kind = "Yearly" ->
         dt.month = 12 /\ dt.day = 31 /\ is_in_window(dt, 0, 59)

\* Period key of kind at the time dt.
PeriodKey(kind, dt) ==
  CASE kind = "Daily" -> DateIso(dt)
    [] kind = "Weekly" -> iso_year_week(dt)
    [] kind = "Monthly" -> year_month(dt)
    [] kind = "Yearly" -> year_key(dt)

\* Key of the period after the one dt lies in, as the period runs compute it.
NextKey(kind, dt) ==
  CASE kind = "Weekly" -> iso_year_week(PlusOneDay(dt))
    [] kind = "Monthly" -> year_month(first_next_month(dt))
    [] kind = "Yearly" -> ToString(dt.year + 1)

\* The document's field that holds the bucket of a kind.
BucketField(kind) ==
  CASE kind = "Weekly" -> "weekly"
    [] kind = "Monthly" -> "monthly"
    [] kind = "Yearly" -> "yearly"

\* A message as the webhook receives it: the report's kind, the period key
\* printed in its title, the ranked entries, and when and by which tick.
Message(p, kind, title, entries) ==
  [kind |-> kind, title |-> title, entries |-> TopLines(entries),
   at |-> now_local[p], tick |-> tick[p]]

\* ------------------------------------------------------------- the clock

\* The instants at or after dt that the clock can show when first is the
\* first day: the same instant, a later time of the same day, or any time of
\* the day after.
LaterInstants(dt, first) ==
  {dt}
  \cup { [dt EXCEPT !.hour = t[1], !.minute = t[2]] :
           t \in { u \in TickTimes : u[1] * 60 + u[2] > dt.hour * 60 + dt.minute } }
  \cup { [PlusOneDay(dt) EXCEPT !.hour = t[1], !.minute = t[2]] :
           t \in { u \in TickTimes :
                     ToOrdinal(dt.year, dt.month, dt.day) + 1
                       < ToOrdinal(first.year, first.month, first.day) + MaxDays } }

\* ------------------------------------------------------ main(): start up

Running == { q \in Invocations : pc[q] # "idle" }

\* The external scheduler starts main().
Launch(p, limit) ==
  /\ pc[p] = "idle"
  /\ nticks < limit
  /\ nticks' = nticks + 1
  /\ tick' = [tick EXCEPT ![p] = nticks + 1]
  /\ overlap' = overlap \cup { {tick[q], nticks + 1} : q \in Running }
  /\ pre' = [pre EXCEPT ![p] =
              [file |-> state_file, locks |-> locks, roster |-> members_file]]
  /\ pc' = [pc EXCEPT ![p] = "load_state"]
  /\ UNCHANGED <<now, shared, locals, outside, at_call, failed, raised,
                 notify_failed, notified, merged_days>>

\* A tick that starts when no other invocation is running.
Tick(p) == Running = {} /\ Launch(p, MaxTicks)

\* A tick that may start while another invocation is still running.
OverlappingTick(p) == Launch(p, MaxOverlapTicks)

\* state = load_state()
LoadState(p) ==
  /\ pc[p] = "load_state"
  /\ state' = [state EXCEPT ![p] = load_state(state_file)]
  /\ pc' = [pc EXCEPT ![p] = "berlin_now"]
  /\ UNCHANGED <<now, shared, now_local, bequiet, joined, added, history>>

\* now_local = berlin_now(): the clock is read; it never runs backwards, and
\* any amount of time may have passed since it was last read.
BerlinNow(p) ==
  /\ pc[p] = "berlin_now"
  /\ \E t \in LaterInstants(now, epoch) :
       /\ now' = t
       /\ now_local' = [now_local EXCEPT ![p] = t]
  /\ pc' = [pc EXCEPT ![p] = "run_homepage_scan"]
  /\ UNCHANGED <<shared, state, bequiet, joined, added, history>>

\* An exception leaves main(): the handler under __main__ takes over.
Raise(p, what) ==
  /\ raised' = [raised EXCEPT ![p] = what]
  /\ pc' = [pc EXCEPT ![p] = "except"]

\* --------------------------------------------------- run_homepage_scan()

\* load_bequiet_names_from_homepage() (an error gives the empty set) and
\* add_members(found).
run_homepage_scan(p) ==
  /\ pc[p] = "run_homepage_scan"
  /\ IF now_local[p].hour \notin {10, 18, 21}
       THEN /\ pc' = [pc EXCEPT ![p] = "run_daily"]
            /\ UNCHANGED <<shared, added>>
       ELSE \E found \in Homepages :
              LET new == AddedNames(members_file, found)
                  mem == load_members(members_file) \o SortNames(new)
              IN  IF new = {}
                    THEN /\ pc' = [pc EXCEPT ![p] = "run_daily"]
                         /\ UNCHANGED <<shared, added>>
                    ELSE /\ members_file' = save_members(mem)
                         /\ added' = [added EXCEPT ![p] = new]
                         /\ pc' = [pc EXCEPT ![p] = "homepage_post"]
                         /\ UNCHANGED <<state_file, locks, daily_logs, sent>>
  /\ UNCHANGED <<now, state, now_local, bequiet, joined, history>>

\* post_discord("Neue beQuiet-Namen ..."); an exception is caught and logged.
HomepagePost(p) ==
  /\ pc[p] = "homepage_post"
  /\ \E outcome \in Outcomes :
       sent' = IF post_discord(outcome).delivered
                 THEN Append(sent, Message(p, "Homepage", "", SortNames(added[p])))
                 ELSE sent
  /\ pc' = [pc EXCEPT ![p] = "run_daily"]
  /\ UNCHANGED <<now, state_file, locks, members_file, daily_logs, locals, history>>

\* ------------------------------------------------------------ run_daily()

\* today with the time of day left in: now_local.isoformat().
Today_WithTime(p) ==
  DateIso(now_local[p]) \o "T" \o Pad2(now_local[p].hour)
    \o ":" \o Pad2(now_local[p].minute)

\* today = now_local.date().isoformat()
Today(p) == DateIso(now_local[p])

\* The window check, try_lock("daily", today) and the last_daily_date check.
TryLock(p) ==
  /\ pc[p] = "run_daily"
  /\ IF ~InPostingWindow("Daily", now_local[p])
       THEN /\ pc' = [pc EXCEPT ![p] = "run_weekly"]
            /\ UNCHANGED locks
       ELSE LET r == try_lock(locks, LockPath("daily", Today(p)))
            IN  /\ locks' = r.lockdir
                /\ pc' = [pc EXCEPT ![p] =
                            IF ~r.acquired THEN "run_weekly"
                            ELSE IF GetKey(state[p], "last_daily_date", "") = Today(p)
                              THEN "run_weekly"
                            ELSE "load_ranking"]
  /\ UNCHANGED <<now, state_file, members_file, daily_logs, sent, locals, history>>

\* bequiet_ranking = load_bequiet_names_from_ranking(): may raise.
LoadRanking(p) ==
  /\ pc[p] = "load_ranking"
  /\ \/ /\ failed' = [failed EXCEPT ![p] = "ranking"]
        /\ Raise(p, "ranking")
        /\ UNCHANGED bequiet
     \/ \E r \in Rankings :
          /\ bequiet' = [bequiet EXCEPT ![p] = r]
          /\ pc' = [pc EXCEPT ![p] = "load_members"]
          /\ UNCHANGED <<failed, raised>>
  /\ UNCHANGED <<now, shared, state, now_local, joined, added,
                 tick, nticks, outside, overlap, pre, at_call,
                 notify_failed, notified, merged_days>>

\* members_map = load_members(); bequiet_all = keys | bequiet_ranking
LoadMembers(p) ==
  /\ pc[p] = "load_members"
  /\ bequiet' = [bequiet EXCEPT ![p] =
                   MemberKeys(load_members(members_file)) \cup bequiet[p]]
  /\ pc' = [pc EXCEPT ![p] = "load_monstercount"]
  /\ UNCHANGED <<now, shared, state, now_local, joined, added, history>>

\* all_counts = load_monstercount(): may raise.  Then the guild filter, the
\* sort and write_daily_logs().
LoadMonstercount(p) ==
  /\ pc[p] = "load_monstercount"
  /\ \/ /\ failed' = [failed EXCEPT ![p] = "monstercount"]
        /\ Raise(p, "monstercount")
        /\ UNCHANGED <<joined, daily_logs>>
     \/ \E all_counts \in Scrapes :
          LET j == Joined(all_counts, bequiet[p])
          IN  /\ joined' = [joined EXCEPT ![p] = j]
              /\ daily_logs' = [daily_logs EXCEPT ![DateIso(now_local[p])] = <<j>>]
              /\ pc' = [pc EXCEPT ![p] = "post_daily"]
              /\ UNCHANGED <<failed, raised>>
  /\ UNCHANGED <<now, state_file, locks, members_file, sent, state, now_local, bequiet,
                 added, tick, nticks, outside, overlap, pre, at_call,
                 notify_failed, notified, merged_days>>

\* One report through post_discord(): on success the message is out and the
\* invocation goes on at okPc; when post_discord raises, main() is left.
Notify(p, kind, title, entries, okPc) ==
  \E outcome \in Outcomes :
    LET r == post_discord(outcome)
        attempted == ~NO_POST /\ DISCORD_WEBHOOK
    IN  /\ sent' = IF r.delivered
                     THEN Append(sent, Message(p, kind, title, entries))
                     ELSE sent
        /\ notified' = notified \cup {<<tick[p], kind>>}
        /\ IF ~attempted \/ outcome = "ok"
             THEN UNCHANGED <<failed, at_call, notify_failed>>
             ELSE /\ failed' = [failed EXCEPT ![p] = kind]
                  /\ at_call' = [at_call EXCEPT ![p] = <<state_file>>]
                  /\ notify_failed' =
                       notify_failed \cup {<<kind, PeriodKey(kind, now_local[p])>>}
        /\ IF r.raises
             THEN Raise(p, kind)
             ELSE /\ pc' = [pc EXCEPT ![p] = okPc]
                  /\ UNCHANGED raised

\* post_discord(format_ranking("Daily Monstercount", joined, spruch))
PostDaily(p) ==
  /\ pc[p] = "post_daily"
  /\ Notify(p, "Daily", Today(p), joined[p], "aggregate")
  /\ UNCHANGED <<now, state_file, locks, members_file, daily_logs, locals,
                 tick, nticks, outside, overlap, pre, merged_days>>

\* aggregate_into(state, joined, now_local); state["last_daily_date"] = today.
\* state["weekly"], state["monthly"] and state["yearly"] raise KeyError when
\* the loaded document lacks the key.
Aggregate(p) ==
  /\ pc[p] = "aggregate"
  /\ IF BucketKeys \subseteq DOMAIN state[p]
       THEN /\ state' = [state EXCEPT ![p] =
                           SetKey(aggregate_into(state[p], joined[p], now_local[p]),
                                  "last_daily_date", Today(p))]
            /\ merged_days' = Append(merged_days, DateIso(now_local[p]))
            /\ pc' = [pc EXCEPT ![p] = "save_daily"]
            /\ UNCHANGED raised
       ELSE /\ Raise(p, "KeyError")
            /\ UNCHANGED <<state, merged_days>>
  /\ UNCHANGED <<now, shared, now_local, bequiet, joined, added,
                 tick, nticks, outside, overlap, pre, at_call, failed,
                 notify_failed, notified>>

\* save_state(state): the whole document replaces the file.
save_state(p, nextPc) ==
  /\ state_file' = <<state[p]>>
  /\ pc' = [pc EXCEPT ![p] = nextPc]
  /\ UNCHANGED <<now, locks, members_file, daily_logs, sent, locals, history>>

SaveDaily(p) == pc[p] = "save_daily" /\ save_state(p, "run_weekly")

\* ---------------------------------- run_weekly / run_monthly / run_yearly

\* The common shape of the three period runs: when the period's report is
\* due, post the ranking of the stored bucket, then replace the bucket by an
\* empty one for the next period.  bucket is the document's field.
RunPeriod(p, kind, due, bucket, nextKey, savePc, skipPc) ==
  IF ~due
    THEN /\ pc' = [pc EXCEPT ![p] = skipPc]
         /\ UNCHANGED <<sent, state, at_call, failed, raised, notify_failed, notified>>
    ELSE LET b == GetKey(state[p], bucket, EmptyBucket(""))
         IN  /\ Notify(p, kind, b.key, SortDesc(b.kills), savePc)
             /\ state' = IF pc'[p] = savePc
                           THEN [state EXCEPT ![p] =
                                   SetKey(state[p], bucket, EmptyBucket(nextKey))]
                           ELSE state

run_weekly(p) ==
  /\ pc[p] = "run_weekly"
  /\ RunPeriod(p, "Weekly", InPostingWindow("Weekly", now_local[p]),
               "weekly", NextKey("Weekly", now_local[p]),
               "save_weekly", "run_monthly")
  /\ UNCHANGED <<now, state_file, locks, members_file, daily_logs,
                 now_local, bequiet, joined, added,
                 tick, nticks, outside, overlap, pre, merged_days>>

SaveWeekly(p) == pc[p] = "save_weekly" /\ save_state(p, "run_monthly")

run_monthly(p) ==
  /\ pc[p] = "run_monthly"
  /\ RunPeriod(p, "Monthly", InPostingWindow("Monthly", now_local[p]),
               "monthly", NextKey("Monthly", now_local[p]),
               "save_monthly", "run_yearly")
  /\ UNCHANGED <<now, state_file, locks, members_file, daily_logs,
                 now_local, bequiet, joined, added,
                 tick, nticks, outside, overlap, pre, merged_days>>

SaveMonthly(p) == pc[p] = "save_monthly" /\ save_state(p, "run_yearly")

run_yearly(p) ==
  /\ pc[p] = "run_yearly"
  /\ RunPeriod(p, "Yearly", InPostingWindow("Yearly", now_local[p]),
               "yearly", NextKey("Yearly", now_local[p]),
               "save_yearly", "done")
  /\ UNCHANGED <<now, state_file, locks, members_file, daily_logs,
                 now_local, bequiet, joined, added,
                 tick, nticks, outside, overlap, pre, merged_days>>

SaveYearly(p) == pc[p] = "save_yearly" /\ save_state(p, "done")

\* ------------------------------------------------------- end of a tick

\* except Exception: post_discord(err), itself inside try/except: pass.
Except(p) ==
  /\ pc[p] = "except"
  /\ \E outcome \in Outcomes :
       sent' = IF post_discord(outcome).delivered
                 THEN Append(sent, Message(p, "Error", raised[p], <<>>))
                 ELSE sent
  /\ pc' = [pc EXCEPT ![p] = "done"]
  /\ UNCHANGED <<now, state_file, locks, members_file, daily_logs, locals, history>>

\* The process exits; nothing of it but the files remains.
Exit(p) ==
  /\ pc[p] = "done"
  /\ pc' = [pc EXCEPT ![p] = "idle"]
  /\ state' = [state EXCEPT ![p] = DefaultState]
  /\ now_local' = [now_local EXCEPT ![p] = Clock0(epoch)]
  /\ bequiet' = [bequiet EXCEPT ![p] = {}]
  /\ joined' = [joined EXCEPT ![p] = <<>>]
  /\ added' = [added EXCEPT ![p] = {}]
  /\ tick' = [tick EXCEPT ![p] = 0]
  /\ pre' = [pre EXCEPT ![p] = NoSnapshot]
  /\ at_call' = [at_call EXCEPT ![p] = <<>>]
  /\ failed' = [failed EXCEPT ![p] = ""]
  /\ raised' = [raised EXCEPT ![p] = ""]
  /\ UNCHANGED <<now, shared, nticks, outside, overlap,
                 notify_failed, notified, merged_days>>

\* The steps of one invocation after it has started.
Step(p) ==
  \/ LoadState(p)
  \/ BerlinNow(p)
  \/ run_homepage_scan(p)
  \/ HomepagePost(p)
  \/ TryLock(p)
  \/ LoadRanking(p)
  \/ LoadMembers(p)
  \/ LoadMonstercount(p)
  \/ PostDaily(p)
  \/ Aggregate(p)
  \/ SaveDaily(p)
  \/ run_weekly(p)
  \/ SaveWeekly(p)
  \/ run_monthly(p)
  \/ SaveMonthly(p)
  \/ run_yearly(p)
  \/ SaveYearly(p)
  \/ Except(p)
  \/ Exit(p)

\* Ticks run one after another, as the scheduler's cron trigger runs them.
Next ==
  \/ Tick(1)
  \/ Step(1)

Spec == Init /\ [][Next]_vars

\* Two triggers may fire close together: invocations may overlap.
NextOverlap ==
  \/ \E p \in Invocations : OverlappingTick(p)
  \/ \E p \in Invocations : Step(p)

\* The overlapping runs start on Saturday 2023-12-30.
InitOverlap == Start(StartDate, Clock0(StartDate), <<>>, <<"alice">>, FALSE, <<>>)

SpecOverlap == InitOverlap /\ [][NextOverlap]_vars

\* A tick that starts at any instant around the posting windows.
WindowTick(p) == Running = {} /\ Launch(p, MaxWindowTicks)

NextWindows ==
  \/ WindowTick(1)
  \/ Step(1)

\* The clock starts at a time around the posting windows, on a day of any
\* kind.
InitWindows ==
  \E d \in WindowDates : \E t \in WindowTimes :
    Start(d, [Clock0(d) EXCEPT !.hour = t[1], !.minute = t[2]],
          <<>>, <<"alice">>, FALSE, <<>>)

SpecWindows == InitWindows /\ [][NextWindows]_vars

\* ------------------------------------------------- a tick that is killed

\* The process of invocation p is gone: its memory with it.
Killed(p) ==
  /\ pc' = [pc EXCEPT ![p] = "idle"]
  /\ state' = [state EXCEPT ![p] = DefaultState]
  /\ now_local' = [now_local EXCEPT ![p] = Clock0(epoch)]
  /\ bequiet' = [bequiet EXCEPT ![p] = {}]
  /\ joined' = [joined EXCEPT ![p] = <<>>]
  /\ added' = [added EXCEPT ![p] = {}]
  /\ tick' = [tick EXCEPT ![p] = 0]
  /\ pre' = [pre EXCEPT ![p] = NoSnapshot]
  /\ at_call' = [at_call EXCEPT ![p] = <<>>]
  /\ failed' = [failed EXCEPT ![p] = ""]
  /\ raised' = [raised EXCEPT ![p] = ""]
  /\ UNCHANGED <<now, locks, members_file, daily_logs, sent, nticks, outside,
                 overlap, notify_failed, notified, merged_days>>

\* The process is killed (the runner is cancelled, the machine stops)
\* between two steps of main().
Kill(p) ==
  /\ pc[p] \notin {"idle", "done"}
  /\ Killed(p)
  /\ UNCHANGED state_file

\* The process is killed inside save_state(): Path.write_text() has opened
\* the state file for writing, which empties it, and has written none or a
\* part of the new text.
KillInSave(p) ==
  /\ pc[p] \in {"save_daily", "save_weekly", "save_monthly", "save_yearly"}
  /\ state_file' = <<Unparseable(state[p])>>
  /\ Killed(p)

\* Ticks one after another, any of which may be killed.
NextCrash ==
  \/ Tick(1)
  \/ Step(1)
  \/ Kill(1)
  \/ KillInSave(1)

SpecCrash == Init /\ [][NextCrash]_vars

\* ------------------------------------------- members_sync.py: run_once()

\* The scheduler starts members_sync.py while nothing else runs.
SyncStart ==
  /\ sync_pc = "idle"
  /\ Running = {}
  /\ nticks < MaxTicks
  /\ nticks' = nticks + 1
  /\ sync_pc' = "run_once"
  /\ UNCHANGED <<now, shared, pc, locals, tick, overlap, pre, at_call, failed,
                 raised, notify_failed, notified, merged_days,
                 epoch, roster0, NO_POST, sync_mem, sync_added, args, result>>

\* fetch_homepage_html() (an exception ends the run), then
\* parse_online_bequiet_names(), load_members() and add_missing().
run_once ==
  /\ sync_pc = "run_once"
  /\ \/ /\ sync_pc' = "idle"
        /\ UNCHANGED <<sync_mem, sync_added>>
     \/ \E online \in Homepages :
          LET mem == sync_load_members(members_file)
              new == add_missing(mem, online)
          IN  /\ sync_mem' = mem \o new
              /\ sync_added' = new
              /\ sync_pc' = IF new = <<>> THEN "idle" ELSE "save_members"
  /\ UNCHANGED <<now, shared, pc, locals, tick, nticks, overlap, pre, at_call,
                 failed, raised, notify_failed, notified, merged_days,
                 epoch, roster0, NO_POST, args, result>>

\* save_members(mem)
SyncSaveMembers ==
  /\ sync_pc = "save_members"
  /\ members_file' = sync_save_members(sync_mem)
  /\ sync_pc' = "post_discord"
  /\ UNCHANGED <<now, state_file, locks, daily_logs, sent, pc, locals,
                 tick, nticks, overlap, pre, at_call, failed, raised,
                 notify_failed, notified, merged_days,
                 epoch, roster0, NO_POST, sync_mem, sync_added, args, result>>

\* for name in added: post_discord(format_message(name)), one name a step.
SyncPostDiscord ==
  /\ sync_pc = "post_discord"
  /\ IF sync_added = <<>>
       THEN /\ sync_pc' = "idle"
            /\ sync_mem' = <<>>
            /\ UNCHANGED <<sent, sync_added>>
       ELSE \E outcome \in Outcomes : \E template \in Templates :
              /\ sent' = IF sync_post_discord(outcome).delivered
                           THEN Append(sent,
                                  [kind |-> "Joined", title |-> "",
                                   entries |-> format_message(template, sync_added[1]),
                                   at |-> now, tick |-> nticks])
                           ELSE sent
              /\ sync_added' = Tail(sync_added)
              /\ UNCHANGED <<sync_pc, sync_mem>>
  /\ UNCHANGED <<now, state_file, locks, members_file, daily_logs, pc, locals,
                 tick, nticks, overlap, pre, at_call, failed, raised,
                 notify_failed, notified, merged_days,
                 epoch, roster0, NO_POST, args, result>>

\* A tick of the tracker that starts while the roster sync is not running.
RosterTick(p) == sync_pc = "idle" /\ Tick(p)

\* The tracker and the roster sync, one run at a time.
NextRoster ==
  \/ RosterTick(1)
  \/ Step(1)
  \/ SyncStart
  \/ run_once
  \/ SyncSaveMembers
  \/ SyncPostDiscord

\* Saturday 2023-12-30, 21:00, with any of the roster files.
InitRoster ==
  \E roster \in Rosters :
    Start(StartDate, Clock0(StartDate), <<>>, roster, FALSE, <<>>)

SpecRoster == InitRoster /\ [][NextRoster]_vars

\* ----------------------------------------------------------- test mode

\* The tracker runs with NO_POST=1 in its environment.
InitNoPost ==
  \E d \in StartDates : Start(d, Clock0(d), <<>>, <<"alice">>, TRUE, <<>>)

SpecNoPost == InitNoPost /\ [][Next]_vars

\* ------------------------------------------------ a damaged state file

\* State file contents that are no well-formed document: a text json.loads()
\* rejects, a JSON object without the three buckets, and one without the
\* yearly bucket.
CorruptFiles ==
  { <<Unparseable(DefaultState)>>,
    <<[last_daily_date |-> ""]>>,
    <<[last_daily_date |-> "", weekly |-> EmptyBucket(""),
       monthly |-> EmptyBucket("")]>> }

\* The tracker starts on Saturday 2023-12-30 with a damaged state file.
InitCorrupt ==
  \E file \in CorruptFiles :
    Start(StartDate, Clock0(StartDate), file, <<"alice">>, FALSE, <<>>)

SpecCorrupt == InitCorrupt /\ [][Next]_vars

\* ------------------------------------------- format_ranking on its own

\* One call of format_ranking with the arguments args.
FormatRanking ==
  /\ args # <<>>
  /\ result = <<>>
  /\ result' = <<format_ranking(args.title, args.entries, args.spruch)>>
  /\ UNCHANGED <<now, shared, pc, locals, tick, nticks, overlap, pre, at_call,
                 failed, raised, notify_failed, notified, merged_days,
                 epoch, roster0, NO_POST, sync_pc, sync_mem, sync_added, args>>

NextFormat == FormatRanking

InitFormat ==
  \E call \in FormatCalls :
    Start(StartDate, Clock0(StartDate), <<>>, <<"alice">>, FALSE, call)

SpecFormat == InitFormat /\ [][NextFormat]_vars

\* ================================================================ claims

PeriodKinds == {"Weekly", "Monthly", "Yearly"}

\* The persisted document (the default one while there is no file).
Persisted == load_state(state_file)

\* Reports of a kind delivered for the period that contains dt.
ReportsOf(kind, dt) ==
  { i \in DOMAIN sent :
      sent[i].kind = kind /\ PeriodKey(kind, sent[i].at) = PeriodKey(kind, dt) }

\* Sum of the counts observed for a name in one observation set.
RECURSIVE SumOf(_, _)
SumOf(obs, name) ==
  IF Len(obs) = 0 THEN 0
  ELSE (IF obs[1][1] = name THEN obs[1][2] ELSE 0) + SumOf(Tail(obs), name)

\* Sum of the counts observed for a name over a bucket's merge history.
RECURSIVE SumOfAll(_, _)
SumOfAll(src, name) ==
  IF Len(src) = 0 THEN 0
  ELSE SumOf(src[1][2], name) + SumOfAll(Tail(src), name)

PlayerNames == {"Bob", "alice", "Troll"}

\* Every bucket the program holds: the persisted one and those in memory.
BucketsOf(kind) ==
  {Persisted[BucketField(kind)]}
    \cup { state[p][BucketField(kind)] : p \in Invocations }

\* ---- C1 --------------------------------------------------------------
\* C1: over any sequence of ticks, at most one report of each kind is
\* delivered for each period key (day, ISO week, month, year).
C1_AtMostOneReportPerPeriod ==
  \A i, j \in DOMAIN sent :
    (/\ sent[i].kind \in Kinds
     /\ sent[j].kind = sent[i].kind
     /\ PeriodKey(sent[i].kind, sent[j].at) = PeriodKey(sent[i].kind, sent[i].at))
      => i = j

\* ---- C2 --------------------------------------------------------------
\* C2: two invocations that overlap in time never both deliver a report of
\* the same kind for the same period key.
C2_NoDoublePostByOverlappingTicks ==
  \A i, j \in DOMAIN sent :
    (/\ sent[i].kind \in Kinds
     /\ sent[j].kind = sent[i].kind
     /\ PeriodKey(sent[i].kind, sent[j].at) = PeriodKey(sent[i].kind, sent[i].at)
     /\ {sent[i].tick, sent[j].tick} \in overlap)
      => sent[i].tick = sent[j].tick

\* ---- C3 --------------------------------------------------------------
\* A document marks a day as posted by last_daily_date, and a week, month or
\* year by holding the emptied bucket under the next period's key.
DailyMarkSent(doc, ticks) ==
  doc.last_daily_date # "" =>
    \E i \in DOMAIN sent :
      /\ sent[i].kind = "Daily"
      /\ sent[i].tick \in ticks
      /\ DateIso(sent[i].at) = doc.last_daily_date

PeriodMarkSent(doc, kind, ticks) ==
  LET b == doc[BucketField(kind)]
  IN  (b.key # "" /\ b.src = <<>>) =>
        \E i \in DOMAIN sent :
          /\ sent[i].kind = kind
          /\ sent[i].tick \in ticks
          /\ NextKey(kind, sent[i].at) = b.key

\* A write of the state file that changes a posted marker is made by a tick
\* whose report for that period is already delivered.
C3_MarkWrittenAfterNotify ==
  \A p \in Invocations :
    (pc[p] # pc'[p] /\ state_file' # state_file) =>
      LET old == load_state(state_file)
          new == load_state(state_file')
      IN  /\ new.last_daily_date # old.last_daily_date
               => DailyMarkSent(new, {tick[p]})
          /\ \A kind \in PeriodKinds :
               new[BucketField(kind)] # old[BucketField(kind)]
                 => PeriodMarkSent(new, kind, {tick[p]})

C4_FailedNotifyKeepsMarkerAndBucket ==
  \A p \in Invocations :
    (pc[p] = "done" /\ failed[p] \in Kinds) =>
      LET before == load_state(pre[p].file)
      IN  /\ Persisted.last_daily_date = before.last_daily_date
          /\ failed[p] \in PeriodKinds =>
               Persisted[BucketField(failed[p])] = before[BucketField(failed[p])]

\* C4 as amended: when the notify call of a tick fails for a kind, nothing is
\* written from that call on.  After a failed Daily notify the document is
\* the one from before the tick.  After a failed Weekly, Monthly or Yearly
\* notify the kind's bucket is not emptied or moved to the next key: it and
\* last_daily_date are as before the tick, or as the successful Daily post
\* of the same tick left them (today's date, the day's counts added).
C4_FailedNotifyWritesNothing ==
  \A p \in Invocations :
    (pc[p] = "done" /\ failed[p] \in Kinds) =>
      LET before == load_state(pre[p].file)
          f == BucketField(failed[p])
          k == PeriodKey(failed[p], now_local[p])
      IN  /\ state_file = at_call[p][1]
          /\ failed[p] = "Daily" => state_file = pre[p].file
          /\ failed[p] \in PeriodKinds =>
               \/ /\ Persisted.last_daily_date = before.last_daily_date
                  /\ Persisted[f] = before[f]
               \/ /\ Persisted.last_daily_date = DateIso(now_local[p])
                  /\ before.last_daily_date # DateIso(now_local[p])
                  /\ Persisted[f].key = k
                  /\ \A n \in PlayerNames :
                       Get(Persisted[f].kills, n) =
                         (IF before[f].key = k THEN Get(before[f].kills, n) ELSE 0)
                           + SumOf(joined[p], n)

\* The Weekly notify of a tick failed after the Daily post of the same tick
\* had been written.
C4_Witness ==
  \E p \in Invocations :
    /\ pc[p] = "done"
    /\ failed[p] = "Weekly"
    /\ state_file # pre[p].file
    /\ Persisted.weekly.kills # <<>>

\* ---- C5 --------------------------------------------------------------
\* C5: once the notify call for a period has failed, a later tick inside the
\* same posting window in which no call fails delivers that period's report.
C5_RetryAfterFailedNotifyPosts ==
  \A p \in Invocations :
    (pc[p] = "done" /\ failed[p] = "") =>
      \A kind \in Kinds :
        (/\ InPostingWindow(kind, now_local[p])
         /\ <<kind, PeriodKey(kind, now_local[p])>> \in notify_failed)
          => \E i \in ReportsOf(kind, now_local[p]) : sent[i].tick = tick[p]

\* ---- C6 --------------------------------------------------------------
\* C6: the observations fetched on a day are merged into the buckets whether
\* or not the notify call succeeds: between ticks, every day whose guild
\* counts were fetched has been merged.
C6_FetchedObservationsMerged ==
  (\A p \in Invocations : pc[p] \in {"idle", "done"}) =>
    \A d \in Days :
      daily_logs[d] # <<>> => \E i \in DOMAIN merged_days : merged_days[i] = d

\* ---- C7 --------------------------------------------------------------
\* Every merge recorded for a bucket was made under the bucket's key.
C7_CountsFromCurrentKey ==
  \A kind \in PeriodKinds : \A b \in BucketsOf(kind) :
    \A i \in DOMAIN b.src : b.src[i][1] = b.key

\* aggregate_into applied to a bucket whose stored key differs from the
\* computed one leaves the computed key and the merged observations alone.
C7_RolloverStep ==
  \A p \in Invocations :
    (pc[p] = "aggregate" /\ pc'[p] = "save_daily") =>
      \A kind \in PeriodKinds :
        LET old == state[p][BucketField(kind)]
            new == state'[p][BucketField(kind)]
            k == PeriodKey(kind, now_local[p])
        IN  old.key # k =>
              /\ new.key = k
              /\ \A n \in PlayerNames : Get(new.kills, n) = SumOf(joined[p], n)
              /\ \A i \in DOMAIN new.kills : SumOf(joined[p], new.kills[i][1]) > 0

\* C7: a merge under a key that differs from the stored key discards the
\* accumulated counts first, and in every reachable state a bucket's counts
\* come only from merges made under its current key.
C7_RolloverDiscards == []C7_CountsFromCurrentKey /\ [][C7_RolloverStep]_vars

\* A tick of Monday 2024-01-01 has merged its counts into the buckets that
\* held counts of week 2023-W52, month 2023-12 and year 2023.
C7_Witness ==
  \E p \in Invocations :
    /\ pc[p] = "save_daily"
    /\ joined[p] # <<>>
    /\ Persisted.weekly.key = "2023-W52" /\ Persisted.weekly.kills # <<>>
    /\ Persisted.monthly.key = "2023-12" /\ Persisted.monthly.kills # <<>>
    /\ Persisted.yearly.key = "2023" /\ Persisted.yearly.kills # <<>>
    /\ state[p].weekly.key = "2024-W01"
    /\ state[p].monthly.key = "2024-01"
    /\ state[p].yearly.key = "2024"

\* ---- C8 --------------------------------------------------------------
\* Every count of a bucket is the sum of what its merges observed.
C8_RunningTotal ==
  \A kind \in PeriodKinds : \A b \in BucketsOf(kind) :
    /\ \A n \in PlayerNames : Get(b.kills, n) = SumOfAll(b.src, n)
    /\ \A i \in DOMAIN b.kills : b.kills[i][1] \in PlayerNames

\* aggregate_into applied to a bucket whose stored key equals the computed
\* one adds the observed count to each name and lowers no count.
C8_SameKeyStep ==
  \A p \in Invocations :
    (pc[p] = "aggregate" /\ pc'[p] = "save_daily") =>
      \A kind \in PeriodKinds :
        LET old == state[p][BucketField(kind)]
            new == state'[p][BucketField(kind)]
        IN  old.key = PeriodKey(kind, now_local[p]) =>
              /\ new.key = old.key
              /\ Len(new.src) = Len(old.src) + 1
              /\ \A n \in PlayerNames :
                   /\ Get(new.kills, n) = Get(old.kills, n) + SumOf(joined[p], n)
                   /\ Get(new.kills, n) >= Get(old.kills, n)

\* C8: merges under the stored key add the observed counts, leave the other
\* names alone and never lower a count; after N merges the bucket holds the
\* running total of the N observation sets.
C8_SameKeyAdds == []C8_RunningTotal /\ [][C8_SameKeyStep]_vars

\* The persisted yearly bucket holds the total of two merges.
C8_Witness ==
  /\ Len(Persisted.yearly.src) = 2
  /\ Get(Persisted.yearly.kills, "alice") = 2
  /\ Get(Persisted.weekly.kills, "alice") = 2

\* ---- C9 --------------------------------------------------------------
\* C9: over any sequence of ticks, aggregate_into runs at most once for each
\* calendar day, however many ticks fall into the day's daily window.
C9_DayMergedAtMostOnce ==
  \A i, j \in DOMAIN merged_days : merged_days[i] = merged_days[j] => i = j

\* A tick inside the daily window of a day that was merged before has ended.
C9_Witness ==
  \E p \in Invocations :
    /\ pc[p] = "done"
    /\ InPostingWindow("Daily", now_local[p])
    /\ LockPath("daily", DateIso(now_local[p])) \in pre[p].locks
    /\ \E i \in DOMAIN merged_days : merged_days[i] = DateIso(now_local[p])

\* ---- C10 -------------------------------------------------------------
\* C10: a tick in which the ranking fetch or the monstercount fetch raises
\* leaves the state document and the lock files as they were before it.
C10_FailedFetchChangesNothing ==
  \A p \in Invocations :
    (pc[p] = "done" /\ failed[p] \in {"ranking", "monstercount"}) =>
      /\ state_file = pre[p].file
      /\ locks = pre[p].locks

\* ---- C11 -------------------------------------------------------------
\* The posting window of a kind as the claim words it: hour 23, the minute
\* inside the kind's band, and the kind's day.
C11_Window(kind, dt) ==
  /\ dt.hour = 23
  /\ CASE kind = "Daily" -> dt.minute \in 40..55
       [] kind = "Weekly" -> dt.minute \in 30..50 /\ isoweekday(dt) = 7
       [] kind = "Monthly" ->
            dt.minute \in 20..59 /\ dt.day = DaysInMonth(dt.year, dt.month)
       [] kind = "Yearly" -> dt.minute \in 0..59 /\ dt.month = 12 /\ dt.day = 31

\* C11: a report of kind K is delivered, and the state document is changed,
\* only by a tick whose Berlin time lies in K's posting window; a tick
\* outside every window delivers no period report and leaves the document as
\* it was.
C11_OnlyInsideWindows ==
  /\ \A i \in DOMAIN sent :
       sent[i].kind \in Kinds => C11_Window(sent[i].kind, sent[i].at)
  /\ \A p \in Invocations :
       pc[p] # "idle" =>
         LET before == load_state(pre[p].file)
             dt == now_local[p]
         IN  /\ state_file # pre[p].file => \E kind \in Kinds : C11_Window(kind, dt)
             /\ Persisted.last_daily_date # before.last_daily_date
                  => C11_Window("Daily", dt)
             /\ \A kind \in PeriodKinds :
                  Persisted[BucketField(kind)] # before[BucketField(kind)]
                    => C11_Window("Daily", dt) \/ C11_Window(kind, dt)
             /\ (\A kind \in Kinds : ~C11_Window(kind, dt)) =>
                  /\ state_file = pre[p].file
                  /\ \A i \in DOMAIN sent :
                       sent[i].tick = tick[p] => sent[i].kind \notin Kinds

\* A tick of Sunday 2023-12-31 at 23:50, the last minute of the weekly
\* window, has delivered all four reports and written the document.
C11_Witness ==
  \E p \in Invocations :
    /\ pc[p] = "done"
    /\ DateIso(now_local[p]) = "2023-12-31"
    /\ now_local[p].hour = 23 /\ now_local[p].minute = 50
    /\ \A kind \in Kinds :
         \E i \in DOMAIN sent : sent[i].kind = kind /\ sent[i].tick = tick[p]
    /\ state_file # pre[p].file

\* ---- C12 -------------------------------------------------------------
\* The last day of the month by the calendar's table of month lengths; the
\* leap years among the years of the model are 2000 and 2024.
C12_LastDay(dt) ==
  dt.day = CASE dt.month \in {1, 3, 5, 7, 8, 10, 12} -> 31
             [] dt.month \in {4, 6, 9, 11} -> 30
             [] dt.month = 2 -> IF dt.year \in {2000, 2024} THEN 29 ELSE 28

\* The key of the calendar month after the month of dt.
C12_NextMonthKey(dt) ==
  IF dt.month = 12
    THEN ToString(dt.year + 1) \o "-01"
    ELSE ToString(dt.year) \o "-" \o Pad2(dt.month + 1)

\* What end_of_month says for the three dates the claim names.
C12_NamedDates ==
  /\ end_of_month([year |-> 2024, month |-> 2, day |-> 29, hour |-> 23, minute |-> 45])
  /\ end_of_month([year |-> 2023, month |-> 2, day |-> 28, hour |-> 23, minute |-> 45])
  /\ ~end_of_month([year |-> 2024, month |-> 2, day |-> 28, hour |-> 23, minute |-> 45])

\* run_monthly goes on to its post exactly on the last day of a month, and
\* the bucket it leaves, and then saves, is the empty one of the next month.
C12_MonthlyStep ==
  \A p \in Invocations :
    LET dt == now_local[p]
    IN  /\ (pc[p] = "run_monthly" /\ pc'[p] # pc[p]) =>
             /\ end_of_month(dt) <=> C12_LastDay(dt)
             /\ pc'[p] \in {"save_monthly", "except"} => C12_LastDay(dt)
             /\ (pc'[p] = "run_yearly" /\ dt.hour = 23 /\ dt.minute \in 20..59)
                  => ~C12_LastDay(dt)
             /\ pc'[p] = "save_monthly"
                  => state'[p].monthly = EmptyBucket(C12_NextMonthKey(dt))
        /\ (pc[p] = "save_monthly" /\ pc'[p] # pc[p]) =>
             load_state(state_file').monthly = EmptyBucket(C12_NextMonthKey(dt))

\* C12: end_of_month is true exactly on the last calendar day of a month,
\* whatever the month's length and in leap and other years, and after a
\* monthly post the monthly bucket has the key of the month that follows,
\* January of the next year after December.
C12_EndOfMonth == []C12_NamedDates /\ [][C12_MonthlyStep]_vars

\* The monthly report of 2023-12-31 is out and the saved bucket is the empty
\* one of 2024-01.
C12_Witness ==
  \E p \in Invocations :
    /\ pc[p] = "run_yearly"
    /\ DateIso(now_local[p]) = "2023-12-31"
    /\ \E i \in DOMAIN sent : sent[i].kind = "Monthly" /\ sent[i].tick = tick[p]
    /\ Persisted.monthly = EmptyBucket("2024-01")

\* ---- C13 -------------------------------------------------------------
\* C13: in every delivered report the entries are ordered by count
\* descending, and entries of equal count by name ascending, compared without
\* regard to case, whatever the order of the names in the scraped table.
C13_RankedByCountThenName ==
  \A i \in DOMAIN sent :
    sent[i].kind \in Kinds =>
      LET e == sent[i].entries
      IN  \A a, b \in DOMAIN e :
            a < b =>
              \/ e[a][2] > e[b][2]
              \/ e[a][2] = e[b][2] /\ LowerRank(e[a][1]) < LowerRank(e[b][1])

\* ---- C14 -------------------------------------------------------------
\* The body of a message: its lines after the header, the flavor text and
\* the empty line.
BodyOf(msg) == SubSeq(msg, 4, Len(msg))

\* The lines of the full ranked list.
AllEntryLines(entries) ==
  [i \in 1..Len(entries) |-> EntryLine(i, entries[i][1], entries[i][2])]

IsPrefix(a, b) == Len(a) <= Len(b) /\ \A i \in DOMAIN a : a[i] = b[i]

\* C14: the message format_ranking returns is at most DISCORD_SAFE_LIMIT
\* characters long, and its body is the placeholder or whole lines of the
\* ranked list from the first on, with no other line among them.
C14_FitsLimitAndKeepsPrefix ==
  result # <<>> =>
    LET msg == result[1]
    IN  /\ TextLen(msg) <= 1900
        /\ \/ BodyOf(msg) = <<NoKills>>
           \/ BodyOf(msg) = <<"">>
           \/ IsPrefix(BodyOf(msg), AllEntryLines(args.entries))

\* ---- C15 -------------------------------------------------------------
\* C15: the body of the message format_ranking returns is never empty: it
\* is the placeholder for an empty entry list, and when the composed message
\* is over the limit it is the placeholder or holds the first entry line.
C15_BodyNeverEmpty ==
  result # <<>> =>
    LET body == BodyOf(result[1])
    IN  /\ Len(body) > 0 /\ TextLen(body) > 0
        /\ args.entries = <<>> => body = <<NoKills>>
        /\ args.entries # <<>> =>
             \/ body = <<NoKills>>
             \/ \E i \in DOMAIN body : body[i] = AllEntryLines(args.entries)[1]

\* ---- C16 -------------------------------------------------------------
\* A file content that is a document with all its keys.
WellFormed(content) ==
  DOMAIN content = {"last_daily_date", "weekly", "monthly", "yearly"}

\* C16: a tick that finds a state file that is no well-formed document does
\* what it would do without a state file: nothing raises in it but a failed
\* fetch or notify, and the document it saves is a complete one.
C16_CorruptStateIsAbsent ==
  \A p \in Invocations :
    (/\ pc[p] \in {"except", "done"}
     /\ Len(pre[p].file) = 1
     /\ ~WellFormed(pre[p].file[1])) =>
      /\ failed[p] = "" => raised[p] = ""
      /\ state_file # pre[p].file => WellFormed(state_file[1])

\* ---- C17 -------------------------------------------------------------
\* C17: with NO_POST set, a tick in which no fetch fails gives one report to
\* post_discord whatever the time and the gate, and it leaves
\* last_daily_date and the lock files as they were before it.
C17_TestModeKeepsMarker ==
  \A p \in Invocations :
    (NO_POST /\ pc[p] = "done") =>
      /\ failed[p] = "" => \E kind \in Kinds : <<tick[p], kind>> \in notified
      /\ Persisted.last_daily_date = load_state(pre[p].file).last_daily_date
      /\ locks = pre[p].locks

\* ---- C18 -------------------------------------------------------------
\* No two lines of a roster file are equal without regard to case.
NoCaseDuplicates(lines) ==
  \A i, j \in DOMAIN lines : Lower(lines[i]) = Lower(lines[j]) => i = j

\* A step keeps every name of the roster file, compared without regard to
\* case, and a step that writes the file leaves no name twice in it.
C18_RosterStep ==
  /\ MemberKeys(members_file) \subseteq MemberKeys(members_file')
  /\ members_file' # members_file => NoCaseDuplicates(members_file')

\* C18: over the roster updates of the tracker (add_members) and of the
\* roster sync (run_once), run one at a time, every name of the roster file
\* stays in it, compared without regard to case, and a written file holds no
\* name twice.
C18_RosterOnlyGrows == [][C18_RosterStep]_vars

\* The roster sync has written the roster file that held alice: alice is
\* kept and Troll is added.
C18_Witness ==
  /\ sync_pc = "post_discord"
  /\ roster0 = <<"alice">>
  /\ members_file = <<"alice", "Troll">>

\* ---- C19 -------------------------------------------------------------
\* The names the delivered roster messages hold.
Announced ==
  UNION { { sent[i].entries[j] : j \in DOMAIN sent[i].entries } :
            i \in { k \in DOMAIN sent : sent[k].kind \in {"Homepage", "Joined"} } }

\* C19: every name written to the roster file is named in a delivered
\* message of the run that wrote it or of a later run: when a tick of the
\* tracker ends, every name that an earlier run had added to the roster has
\* been announced.
C19_AddedNamesAnnounced ==
  \A p \in Invocations :
    pc[p] = "done" =>
      \A i \in DOMAIN pre[p].roster :
        Lower(pre[p].roster[i]) \notin MemberKeys(roster0)
          => pre[p].roster[i] \in Announced

\* ---- C20 -------------------------------------------------------------
\* C20: whenever a tick stops, inside save_state too, the state file holds a
\* complete document: the one from before the write or the new one, never a
\* part of one.
C20_StateFileNeverTorn ==
  Len(state_file) = 1 =>
    /\ "unparseable" \notin DOMAIN state_file[1]
    /\ WellFormed(state_file[1])

\* ---- C21 -------------------------------------------------------------
\* Sum of the counts of a name in the Daily reports among the first n
\* delivered messages that were posted in the period of a kind containing dt.
RECURSIVE DailyPosted(_, _, _, _)
DailyPosted(n, kind, dt, name) ==
  IF n = 0 THEN 0
  ELSE (IF /\ sent[n].kind = "Daily"
           /\ PeriodKey(kind, sent[n].at) = PeriodKey(kind, dt)
          THEN Get(sent[n].entries, name) ELSE 0)
       + DailyPosted(n - 1, kind, dt, name)

\* C21: the per-name totals of every weekly, monthly and yearly report that
\* was posted equal the sum of the daily counts posted on the days of its
\* period, the last day of the period included, at whatever minutes of hour
\* 23 the ticks occur.
C21_PeriodTotalsCoverEveryDay ==
  \A i \in DOMAIN sent :
    sent[i].kind \in PeriodKinds =>
      \A name \in PlayerNames :
        Get(sent[i].entries, name)
          = DailyPosted(Len(sent), sent[i].kind, sent[i].at, name)

====
